---- MODULE Spec2Model ----
(***************************************************************************)
(* Model of the unbounded async channel (src/src/index.ts) built on the    *)
(* singly linked FIFO queue (linked-list-queue.ts, src/unnamed/part_001).  *)
(*                                                                         *)
(* The channel is a closure over two linked-list queues (promises and      *)
(* resolvers), a closed flag and an error.  JavaScript promises are        *)
(* modelled as cells of the sequence `slots`; the resolver of a promise is *)
(* identified with the index of its cell.  write, read's synchronous part  *)
(* and close run to completion in one step; an async generator resuming    *)
(* after its await is a step of its own.                                   *)
(***************************************************************************)
EXTENDS Integers, Sequences, FiniteSets, TLC

\* ------------------------------------------------------------- bounds
\* write(), read() and close() calls made in one run (the reads an iterator
\* makes on a closed channel are not capped: it stops by itself)
MaxCalls == 6
\* async generators obtained from the channel
NumIterators == 1

\* ------------------------------------------------------------- inputs
\* Writers write pairwise distinct values: the k-th write() call writes k.
Values == 1..MaxCalls
Undefined == "undefined"
Errors == {"e1", "e2"}
Iterators == 1..NumIterators

\* ------------------------------------------------------------- linked-list queue
\* `null` of a node reference (node ids are positive)
Null == 0

\* A queue is the closure state of createLinkedListQueue: front, rear, size,
\* plus the heap of the nodes it owns (node id -> [value, next]).
createLinkedListQueue ==
    [front |-> Null, rear |-> Null, size |-> 0, nodes |-> <<>>]

\* `{ value, next: null }` allocates a node object: a fresh identity.  Nodes
\* no longer reachable are collected, so the smallest unused id is fresh.
NewNode(q) ==
    CHOOSE n \in 1..(Cardinality(DOMAIN q.nodes) + 1) :
        /\ n \notin DOMAIN q.nodes
        /\ \A m \in 1..(n - 1) : m \in DOMAIN q.nodes

\* Mutant: enqueue links the new node before front instead of after rear.
enqueue_front(q, value) ==
    LET node == NewNode(q) IN
    IF q.rear = Null
    THEN [front |-> node, rear |-> node, size |-> q.size + 1,
          nodes |-> q.nodes @@ (node :> [value |-> value, next |-> Null])]
    ELSE [front |-> node, rear |-> q.rear, size |-> q.size + 1,
          nodes |-> q.nodes @@ (node :> [value |-> value, next |-> q.front])]

enqueue(q, value) ==
    LET node == NewNode(q) IN
    IF q.rear = Null
    THEN [front |-> node, rear |-> node, size |-> q.size + 1,
          nodes |-> q.nodes @@ (node :> [value |-> value, next |-> Null])]
    ELSE [front |-> q.front, rear |-> node, size |-> q.size + 1,
          nodes |-> [q.nodes EXCEPT ![q.rear].next = node]
                    @@ (node :> [value |-> value, next |-> Null])]

\* Mutant: dequeue returns the front value but leaves it in the queue.
dequeue_peek(q) ==
    IF q.front = Null
    THEN [queue |-> q, value |-> Null]
    ELSE [queue |-> q, value |-> q.nodes[q.front].value]

\* dequeue returns the removed value (or null) and leaves the queue changed:
\* the pair [queue, value].
dequeue(q) ==
    IF q.front = Null
    THEN [queue |-> q, value |-> Null]
    ELSE LET node == q.front
             front2 == q.nodes[node].next
         IN [queue |-> [front |-> front2,
                        rear |-> IF front2 = Null THEN Null ELSE q.rear,
                        size |-> q.size - 1,
                        nodes |-> [n \in DOMAIN q.nodes \ {node} |-> q.nodes[n]]],
             value |-> q.nodes[node].value]

size(q) == q.size

\* [Symbol.iterator]: the values met walking next from `node` until null.
RECURSIVE walk(_, _)
walk(q, node) ==
    IF node = Null THEN <<>>
    ELSE <<q.nodes[node].value>> \o walk(q, q.nodes[node].next)

iterate(q) == walk(q, q.front)

\* A generator made by [Symbol.iterator]().  Its body has not started
\* ("new"), is suspended at `yield` ("suspended") or has returned ("done").
\* `node` is the generator's variable when it refers to a node of the queue.
\* A node that was dequeued stays alive while the generator can reach it:
\* `det` holds the values of the dequeued nodes from the generator's current
\* node on, and `node` is then the first node of the queue linked after them
\* (null if none).  out, atRequest and touched are history: the values
\* yielded, the contents when the generator was requested, and whether
\* enqueue or dequeue was called since.
NoGenerator ==
    [st |-> "none", node |-> Null, det |-> <<>>,
     out |-> <<>>, atRequest |-> <<>>, touched |-> FALSE]

\* queue[Symbol.iterator](): a generator object whose body has not run.
newGenerator(q) ==
    [st |-> "new", node |-> Null, det |-> <<>>,
     out |-> <<>>, atRequest |-> iterate(q), touched |-> FALSE]

\* Mutant: the generator skips a node each time it moves on.
genNext_skip(q, g) ==
    LET move(n) == [g EXCEPT !.st = IF n = Null THEN "done" ELSE "suspended",
                             !.node = n, !.det = <<>>,
                             !.out = IF n = Null THEN @
                                     ELSE Append(@, q.nodes[n].value)]
    IN IF g.st = "new" THEN move(q.front)
       ELSE IF g.det # <<>>
       THEN IF Len(g.det) > 1
            THEN [g EXCEPT !.det = Tail(@), !.out = Append(@, g.det[2])]
            ELSE move(g.node)
       ELSE LET n == q.nodes[g.node].next IN
            move(IF n = Null THEN Null ELSE q.nodes[n].next)

\* generator.next(): `let node = front` when the body starts, else
\* `node = node.next`; then `yield node.value`, or return when node is null.
genNext(q, g) ==
    LET move(n) == [g EXCEPT !.st = IF n = Null THEN "done" ELSE "suspended",
                             !.node = n, !.det = <<>>,
                             !.out = IF n = Null THEN @
                                     ELSE Append(@, q.nodes[n].value)]
    IN IF g.st = "new" THEN move(q.front)
       ELSE IF g.det # <<>>
       THEN IF Len(g.det) > 1
            THEN [g EXCEPT !.det = Tail(@), !.out = Append(@, g.det[2])]
            ELSE move(g.node)
       ELSE move(q.nodes[g.node].next)

\* What a generator still refers to once the front node of q is dequeued.
keepAlive(q, g) ==
    IF g.st = "suspended" /\ q.front # Null /\ g.node = q.front
    THEN [g EXCEPT !.det = Append(@, q.nodes[q.front].value),
                   !.node = q.nodes[q.front].next]
    ELSE g

\* ------------------------------------------------------------- promises
Pending == [state |-> "pending"]
Fulfilled(data) == [state |-> "fulfilled", value |-> data]

\* Calling the resolve function of promise p: settles it if it is pending,
\* does nothing otherwise.
resolve(s, p, data) ==
    IF s[p] = Pending THEN [s EXCEPT ![p] = Fulfilled(data)] ELSE s

\* ------------------------------------------------------------- channel
VARIABLES
    promises,    \* queue of promises (slot ids) not yet handed to a reader
    resolvers,   \* queue of resolve functions (slot ids) not yet called by write
    closed,      \* let closed
    error,       \* let error
    slots,       \* state of every promise created by addPromise
    invoked,     \* history: the slot of every resolve function called, in call order
    readCalls,   \* history: every read() call, in call order
    writeLog,    \* history: every write() call with its return value
    closeLog,    \* history: the argument of every close() call
    atClose,     \* history: what was buffered and read when closed became true
    pc,          \* per iterator: position of the async generator
    cur,         \* per iterator: the read() call it awaits
    yielded,     \* per iterator: values yielded so far
    thrown,      \* per iterator: the error it threw
    queue,       \* a linked-list queue used on its own
    qlog,        \* history: every enqueue / dequeue call on `queue`
    gens         \* the generators obtained from queue[Symbol.iterator]()

chanVars == <<promises, resolvers, closed, error, slots, invoked,
              readCalls, writeLog, closeLog, atClose, pc, cur, yielded, thrown>>
qVars == <<queue, qlog, gens>>
vars == <<promises, resolvers, closed, error, slots, invoked,
          readCalls, writeLog, closeLog, atClose, pc, cur, yielded, thrown,
          queue, qlog, gens>>

\* Calls made so far.
Calls == Len(writeLog) + Len(readCalls) + Len(closeLog)

\* `if (e) {closed: true, error: e} else {closed: true}`
closedResult(e) ==
    IF e # Undefined THEN [closed |-> TRUE, error |-> e] ELSE [closed |-> TRUE]

\* res.error of a result object (undefined when the property is absent)
ErrorOf(res) == IF "error" \in DOMAIN res THEN res.error ELSE Undefined

valueResult(value) == [closed |-> FALSE, value |-> value]

\* A new pending promise; its resolver goes to resolvers, itself to promises.
addPromise(ch) ==
    LET p == Len(ch.slots) + 1 IN
    [promises |-> enqueue(ch.promises, p),
     resolvers |-> enqueue(ch.resolvers, p),
     slots |-> Append(ch.slots, Pending)]

Chan == [promises |-> promises, resolvers |-> resolvers, slots |-> slots]

Init ==
    /\ promises = createLinkedListQueue
    /\ resolvers = createLinkedListQueue
    /\ closed = FALSE
    /\ error = Undefined
    /\ slots = <<>>
    /\ invoked = <<>>
    /\ readCalls = <<>>
    /\ writeLog = <<>>
    /\ closeLog = <<>>
    /\ atClose = [buffered |-> <<>>, reads |-> 0]
    /\ pc = [t \in Iterators |-> "idle"]
    /\ cur = [t \in Iterators |-> 0]
    /\ yielded = [t \in Iterators |-> <<>>]
    /\ thrown = [t \in Iterators |-> Undefined]
    /\ queue = createLinkedListQueue
    /\ qlog = <<>>
    /\ gens = [g \in Iterators |-> NoGenerator]

\* Mutant: write calls every waiting resolver instead of the oldest one.
write_broadcast(value) ==
    /\ Calls < MaxCalls
    /\ IF closed
       THEN /\ writeLog' = Append(writeLog,
                                  [value |-> value, ret |-> closedResult(error)])
            /\ UNCHANGED <<promises, resolvers, slots, invoked>>
       ELSE LET ch == IF size(resolvers) = 0 THEN addPromise(Chan) ELSE Chan
            IN /\ promises' = ch.promises
               /\ resolvers' = createLinkedListQueue
               /\ invoked' = invoked \o iterate(ch.resolvers)
               /\ slots' = [p \in DOMAIN ch.slots |->
                              IF ch.slots[p] = Pending
                              THEN Fulfilled(valueResult(value)) ELSE ch.slots[p]]
               /\ writeLog' = Append(writeLog,
                                     [value |-> value, ret |-> valueResult(value)])
    /\ UNCHANGED <<closed, error, readCalls, closeLog, atClose, pc, cur, yielded, thrown>>

\* Mutant: write does not look at closed.
write_ignoresClosed(value) ==
    /\ Calls < MaxCalls
    /\ LET ch == IF size(resolvers) = 0 THEN addPromise(Chan) ELSE Chan
           d == dequeue(ch.resolvers)
       IN /\ promises' = ch.promises
          /\ resolvers' = d.queue
          /\ slots' = resolve(ch.slots, d.value, valueResult(value))
          /\ invoked' = Append(invoked, d.value)
          /\ writeLog' = Append(writeLog,
                                [value |-> value, ret |-> valueResult(value)])
    /\ UNCHANGED <<closed, error, readCalls, closeLog, atClose, pc, cur, yielded, thrown>>

\* Mutant: write creates a promise on every call, also when a resolver waits.
write_alwaysAdd(value) ==
    /\ Calls < MaxCalls
    /\ IF closed
       THEN /\ writeLog' = Append(writeLog,
                                  [value |-> value, ret |-> closedResult(error)])
            /\ UNCHANGED <<promises, resolvers, slots, invoked>>
       ELSE LET ch == addPromise(Chan)
                d == dequeue(ch.resolvers)
            IN /\ promises' = ch.promises
               /\ resolvers' = d.queue
               /\ slots' = resolve(ch.slots, d.value, valueResult(value))
               /\ invoked' = Append(invoked, d.value)
               /\ writeLog' = Append(writeLog,
                                     [value |-> value, ret |-> valueResult(value)])
    /\ UNCHANGED <<closed, error, readCalls, closeLog, atClose, pc, cur, yielded, thrown>>

\* Mutant: write dequeues the resolver but does not call it.
write_noResolve(value) ==
    /\ Calls < MaxCalls
    /\ IF closed
       THEN /\ writeLog' = Append(writeLog,
                                  [value |-> value, ret |-> closedResult(error)])
            /\ UNCHANGED <<promises, resolvers, slots>>
       ELSE LET ch == IF size(resolvers) = 0 THEN addPromise(Chan) ELSE Chan
                d == dequeue(ch.resolvers)
            IN /\ promises' = ch.promises
               /\ resolvers' = d.queue
               /\ slots' = ch.slots
               /\ writeLog' = Append(writeLog,
                                     [value |-> value, ret |-> valueResult(value)])
    /\ UNCHANGED <<closed, error, invoked, readCalls, closeLog, atClose,
                   pc, cur, yielded, thrown>>

write(value) ==
    /\ Calls < MaxCalls
    /\ IF closed
       THEN /\ writeLog' = Append(writeLog,
                                  [value |-> value, ret |-> closedResult(error)])
            /\ UNCHANGED <<promises, resolvers, slots, invoked>>
       ELSE LET ch == IF size(resolvers) = 0 THEN addPromise(Chan) ELSE Chan
                d == dequeue(ch.resolvers)
            IN /\ promises' = ch.promises
               /\ resolvers' = d.queue
               /\ slots' = resolve(ch.slots, d.value, valueResult(value))
               /\ invoked' = Append(invoked, d.value)
               /\ writeLog' = Append(writeLog,
                                     [value |-> value, ret |-> valueResult(value)])
    /\ UNCHANGED <<closed, error, readCalls, closeLog, atClose, pc, cur, yielded, thrown>>

\* Mutant: read reports closure as soon as the channel is closed, without
\* looking at what is still buffered.
read_noDrain(by) ==
    IF closed
    THEN /\ readCalls' = Append(readCalls,
                [by |-> by, awaits |-> Null,
                 returned |-> Fulfilled(closedResult(error))])
         /\ UNCHANGED <<promises, resolvers, slots>>
    ELSE LET ch == IF size(promises) = 0 THEN addPromise(Chan) ELSE Chan
             d == dequeue(ch.promises)
         IN /\ promises' = d.queue
            /\ resolvers' = ch.resolvers
            /\ slots' = ch.slots
            /\ readCalls' = Append(readCalls,
                   [by |-> by, awaits |-> d.value, returned |-> Pending])

\* Mutant: read does not look at closed.
read_ignoresClosed(by) ==
    LET ch == IF size(promises) = 0 THEN addPromise(Chan) ELSE Chan
        d == dequeue(ch.promises)
    IN /\ promises' = d.queue
       /\ resolvers' = ch.resolvers
       /\ slots' = ch.slots
       /\ readCalls' = Append(readCalls,
              [by |-> by, awaits |-> d.value, returned |-> Pending])

\* Mutant: read creates a promise on every call, also when one is buffered.
read_alwaysAdd(by) ==
    IF closed /\ size(promises) = 0
    THEN /\ readCalls' = Append(readCalls,
                [by |-> by, awaits |-> Null,
                 returned |-> Fulfilled(closedResult(error))])
         /\ UNCHANGED <<promises, resolvers, slots>>
    ELSE LET ch == addPromise(Chan)
             d == dequeue(ch.promises)
         IN /\ promises' = d.queue
            /\ resolvers' = ch.resolvers
            /\ slots' = ch.slots
            /\ readCalls' = Append(readCalls,
                   [by |-> by, awaits |-> d.value, returned |-> Pending])

\* The synchronous part of one read() call made by `by` (0: a plain caller,
\* t: the generator of iterator t).  The async function returns a promise:
\* fulfilled with the object the body returned, or following the dequeued
\* promise the body returned (`awaits`), whose outcome it takes unchanged.
read(by) ==
    IF closed /\ size(promises) = 0
    THEN /\ readCalls' = Append(readCalls,
                [by |-> by, awaits |-> Null,
                 returned |-> Fulfilled(closedResult(error))])
         /\ UNCHANGED <<promises, resolvers, slots>>
    ELSE LET ch == IF size(promises) = 0 THEN addPromise(Chan) ELSE Chan
             d == dequeue(ch.promises)
         IN /\ promises' = d.queue
            /\ resolvers' = ch.resolvers
            /\ slots' = ch.slots
            /\ readCalls' = Append(readCalls,
                   [by |-> by, awaits |-> d.value, returned |-> Pending])

\* The outcome of the promise returned by read() call i.
Result(i) ==
    IF readCalls[i].awaits = Null THEN readCalls[i].returned
    ELSE slots[readCalls[i].awaits]

\* channel.read() called directly
readCall ==
    /\ Calls < MaxCalls
    /\ read(0)
    /\ UNCHANGED <<closed, error, invoked, writeLog, closeLog, atClose,
                   pc, cur, yielded, thrown>>

\* Mutant: close calls only the first resolver.
resolveAll_first(s, ps, data) ==
    IF ps = <<>> THEN s ELSE resolve(s, Head(ps), data)

\* Mutant: close calls no resolver.
resolveAll_none(s, ps, data) == s

\* `for (const resolve of resolvers) resolve(data)`
RECURSIVE resolveAll(_, _, _)
resolveAll(s, ps, data) ==
    IF ps = <<>> THEN s
    ELSE resolveAll(resolve(s, Head(ps), data), Tail(ps), data)

\* Values of the settled promises still in `promises`, front to back
\* (recorded by close for the history).
Buffered ==
    LET ps == iterate(promises) IN
    [k \in 1..Len(ps) |-> slots[ps[k]]]

\* Mutant: close has no `if (closed) return`.
close_noGuard(err) ==
    /\ Calls < MaxCalls
    /\ closeLog' = Append(closeLog, err)
    /\ closed' = TRUE
    /\ error' = err
    /\ slots' = resolveAll(slots, iterate(resolvers), closedResult(err))
    /\ invoked' = invoked \o iterate(resolvers)
    /\ atClose' = IF closed THEN atClose
                  ELSE [buffered |-> Buffered, reads |-> Len(readCalls)]
    /\ UNCHANGED <<promises, resolvers, readCalls, writeLog, pc, cur, yielded, thrown>>

\* Mutant: close notifies the waiting readers but never sets closed.
close_noFlag(err) ==
    /\ Calls < MaxCalls
    /\ closeLog' = Append(closeLog, err)
    /\ IF closed
       THEN UNCHANGED <<closed, error, slots, invoked, atClose>>
       ELSE /\ closed' = FALSE
            /\ error' = err
            /\ slots' = resolveAll(slots, iterate(resolvers), closedResult(err))
            /\ invoked' = invoked \o iterate(resolvers)
            /\ atClose' = [buffered |-> Buffered, reads |-> Len(readCalls)]
    /\ UNCHANGED <<promises, resolvers, readCalls, writeLog, pc, cur, yielded, thrown>>

\* Mutant: close stores the error before it looks at closed.
close_errorFirst(err) ==
    /\ Calls < MaxCalls
    /\ closeLog' = Append(closeLog, err)
    /\ error' = err
    /\ IF closed
       THEN UNCHANGED <<closed, slots, invoked, atClose>>
       ELSE /\ closed' = TRUE
            /\ slots' = resolveAll(slots, iterate(resolvers), closedResult(err))
            /\ invoked' = invoked \o iterate(resolvers)
            /\ atClose' = [buffered |-> Buffered, reads |-> Len(readCalls)]
    /\ UNCHANGED <<promises, resolvers, readCalls, writeLog, pc, cur, yielded, thrown>>

\* Mutant: close dequeues the resolvers it calls.
close_clears(err) ==
    /\ Calls < MaxCalls
    /\ closeLog' = Append(closeLog, err)
    /\ IF closed
       THEN UNCHANGED <<closed, error, slots, invoked, atClose, resolvers>>
       ELSE /\ closed' = TRUE
            /\ error' = err
            /\ slots' = resolveAll(slots, iterate(resolvers), closedResult(err))
            /\ invoked' = invoked \o iterate(resolvers)
            /\ resolvers' = createLinkedListQueue
            /\ atClose' = [buffered |-> Buffered, reads |-> Len(readCalls)]
    /\ UNCHANGED <<promises, readCalls, writeLog, pc, cur, yielded, thrown>>

close(err) ==
    /\ Calls < MaxCalls
    /\ closeLog' = Append(closeLog, err)
    /\ IF closed
       THEN UNCHANGED <<closed, error, slots, invoked, atClose>>
       ELSE /\ closed' = TRUE
            /\ error' = err
            /\ slots' = resolveAll(slots, iterate(resolvers), closedResult(err))
            /\ invoked' = invoked \o iterate(resolvers)
            /\ atClose' = [buffered |-> Buffered, reads |-> Len(readCalls)]
    /\ UNCHANGED <<promises, resolvers, readCalls, writeLog, pc, cur, yielded, thrown>>

\* get state()
state == [closed |-> closed, error |-> error]

\* [Symbol.asyncIterator]: next() on a generator that is suspended at its
\* start or at `yield` runs it up to `await this.read()`.
next(t) ==
    /\ pc[t] \in {"idle", "yielded"}
    /\ closed \/ Calls < MaxCalls
    /\ read(t)
    /\ pc' = [pc EXCEPT ![t] = "reading"]
    /\ cur' = [cur EXCEPT ![t] = Len(readCalls) + 1]
    /\ UNCHANGED <<closed, error, invoked, writeLog, closeLog, atClose,
                   yielded, thrown>>

\* Mutant: the generator ends cleanly on any closed result.
resume_break(t) ==
    /\ pc[t] = "reading"
    /\ Result(cur[t]) # Pending
    /\ LET res == Result(cur[t]).value IN
       IF res.closed
       THEN /\ pc' = [pc EXCEPT ![t] = "done"]
            /\ UNCHANGED <<thrown, yielded>>
       ELSE /\ pc' = [pc EXCEPT ![t] = "yielded"]
            /\ yielded' = [yielded EXCEPT ![t] = Append(@, res.value)]
            /\ UNCHANGED thrown
    /\ UNCHANGED <<promises, resolvers, closed, error, slots, invoked,
                   readCalls, writeLog, closeLog, atClose, cur>>

\* The generator resumes after `await this.read()` with the result.
resume(t) ==
    /\ pc[t] = "reading"
    /\ Result(cur[t]) # Pending
    /\ LET res == Result(cur[t]).value IN
       IF res.closed
       THEN IF ErrorOf(res) # Undefined
            THEN /\ pc' = [pc EXCEPT ![t] = "threw"]
                 /\ thrown' = [thrown EXCEPT ![t] = ErrorOf(res)]
                 /\ UNCHANGED yielded
            ELSE /\ pc' = [pc EXCEPT ![t] = "done"]
                 /\ UNCHANGED <<thrown, yielded>>
       ELSE /\ pc' = [pc EXCEPT ![t] = "yielded"]
            /\ yielded' = [yielded EXCEPT ![t] = Append(@, res.value)]
            /\ UNCHANGED thrown
    /\ UNCHANGED <<promises, resolvers, closed, error, slots, invoked,
                   readCalls, writeLog, closeLog, atClose, cur>>

Next ==
    \/ \E value \in Values :
          value = Len(writeLog) + 1 /\ write(value) /\ UNCHANGED qVars
    \/ readCall /\ UNCHANGED qVars
    \/ \E err \in Errors \cup {Undefined} : close(err) /\ UNCHANGED qVars
    \/ \E t \in Iterators : next(t) /\ UNCHANGED qVars
    \/ \E t \in Iterators : resume(t) /\ UNCHANGED qVars

Spec == Init /\ [][Next]_vars

\* A for await loop keeps calling next() after each value, and a generator
\* whose awaited promise is settled is resumed.
FairSpec ==
    /\ Spec
    /\ \A t \in Iterators :
          WF_vars(pc[t] = "yielded" /\ next(t) /\ UNCHANGED qVars)
    /\ \A t \in Iterators : WF_vars(resume(t) /\ UNCHANGED qVars)

\* ------------------------------------------------------------- vocabulary of the claims
\* The write() calls that were accepted (made while the channel was open).
AcceptedWrites == {k \in DOMAIN writeLog : ~writeLog[k].ret.closed}
NumAccepted == Cardinality(AcceptedWrites)

\* read() call i holds a promise nobody has settled yet.
Suspended(i) ==
    /\ readCalls[i].awaits # Null
    /\ slots[readCalls[i].awaits] = Pending

\* read() call i has resolved with {closed: false, value: v}.
GotValue(i, v) ==
    /\ Result(i) # Pending
    /\ ~Result(i).value.closed
    /\ Result(i).value.value = v

\* read() call i has resolved with {closed: true, error: e} (no error
\* property when e is undefined).
GotClosed(i, e) ==
    /\ Result(i) # Pending
    /\ Result(i).value.closed
    /\ ErrorOf(Result(i).value) = e
    /\ ("error" \in DOMAIN Result(i).value) <=> (e # Undefined)

IsClosedResult(i) == Result(i) # Pending /\ Result(i).value.closed
IsValueResult(i) == Result(i) # Pending /\ ~Result(i).value.closed

\* How often value v reached a consumer: plain read() calls that resolved
\* with it, plus the positions at which an iterator yielded it.
Receipts(v) ==
    Cardinality({i \in DOMAIN readCalls : readCalls[i].by = 0 /\ GotValue(i, v)})
    + Cardinality({x \in Iterators \X (1..MaxCalls) :
                      x[2] <= Len(yielded[x[1]]) /\ yielded[x[1]][x[2]] = v})

\* ------------------------------------------------------------- claims

\* C1: on a channel that was never closed, the i-th read() call resolves with
\* the value of the i-th write() call, and stays pending while there is no
\* i-th write yet.
C1_FifoOpen ==
    closeLog = <<>> =>
        \A i \in DOMAIN readCalls :
            /\ readCalls[i].awaits # Null
            /\ IF i <= Len(writeLog)
               THEN GotValue(i, writeLog[i].value)
               ELSE Result(i) = Pending

C1_Witness ==
    /\ closeLog = <<>>
    /\ Len(writeLog) = 3
    /\ Len(readCalls) = 3
    /\ GotValue(3, writeLog[3].value)
    /\ writeLog[1].value # writeLog[3].value

\* C2: when read() calls i < j are both suspended on an open channel and one
\* write(v) happens, j is still suspended afterwards, and i, if it is the
\* oldest suspended call, has resolved with v.
C2_ReaderFairness ==
    [][\A v \in Values :
         (~closed /\ write(v)) =>
            \A i, j \in DOMAIN readCalls :
               (i < j /\ Suspended(i) /\ Suspended(j)) =>
                  /\ Suspended(j)'
                  /\ (\A h \in 1..(i - 1) : ~Suspended(h)) => GotValue(i, v)'
      ]_vars

C2_Witness ==
    /\ ~closed
    /\ Len(readCalls) = 2
    /\ Len(writeLog) = 1
    /\ GotValue(1, writeLog[1].value)
    /\ Suspended(2)

\* C3: after the first close(e), the read() calls made after it return the k
\* values that were buffered at that moment, in write order, and every
\* read() call after those k returns {closed: true, error: e}.
C3_CloseDrainsThenCloses ==
    closed =>
        LET k == Len(atClose.buffered) IN
        /\ k <= NumAccepted
        /\ \A i \in DOMAIN readCalls :
              i > atClose.reads =>
                 IF i - atClose.reads <= k
                 THEN /\ GotValue(i, writeLog[NumAccepted - k + (i - atClose.reads)].value)
                      /\ Result(i) = atClose.buffered[i - atClose.reads]
                 ELSE GotClosed(i, closeLog[1])

C3_Witness ==
    /\ closed
    /\ Len(atClose.buffered) = 2
    /\ Len(readCalls) = atClose.reads + 3
    /\ closeLog[1] = "e1"
    /\ GotClosed(Len(readCalls), "e1")

\* C4: the read() calls that were suspended when close(err) was called have
\* resolved with {closed: true, error: err}, and while the channel is closed
\* no promise and no read() call is pending.
C4_CloseSettlesPending ==
    closed =>
        /\ \A p \in DOMAIN slots : slots[p] # Pending
        /\ \A i \in DOMAIN readCalls : Result(i) # Pending
        /\ \A i \in DOMAIN readCalls :
              (i <= atClose.reads /\ i > NumAccepted) => GotClosed(i, closeLog[1])

C4_Witness ==
    /\ closed
    /\ atClose.reads >= NumAccepted + 2
    /\ closeLog[1] = "e2"

\* C5: after the first close(e1), state is {closed: true, error: e1} whatever
\* close calls follow, and every closed result returned by read() or write()
\* carries e1.
C5_FirstCloseWins ==
    closeLog # <<>> =>
        /\ state = [closed |-> TRUE, error |-> closeLog[1]]
        /\ \A i \in DOMAIN readCalls :
              IsClosedResult(i) => GotClosed(i, closeLog[1])
        /\ \A k \in DOMAIN writeLog :
              writeLog[k].ret.closed => ErrorOf(writeLog[k].ret) = closeLog[1]

C5_Witness ==
    /\ Len(closeLog) = 2
    /\ closeLog[1] = Undefined
    /\ closeLog[2] = "e2"
    /\ \E i \in DOMAIN readCalls : readCalls[i].awaits = Null
    /\ \E k \in DOMAIN writeLog : writeLog[k].ret.closed

\* C6: write(v) on a closed channel returns the closed result with the error
\* of the first close and changes neither queue, closed, error nor any
\* promise; and a value is only ever delivered if its write was accepted.
C6_WriteOnClosedNoEffect ==
    [][/\ \A v \in Values :
            (closed /\ write(v)) =>
               /\ UNCHANGED <<promises, resolvers, closed, error, slots, readCalls>>
               /\ LET ret == writeLog'[Len(writeLog')].ret IN
                  /\ ret.closed
                  /\ ErrorOf(ret) = closeLog[1]
                  /\ ("error" \in DOMAIN ret) <=> (closeLog[1] # Undefined)
       /\ \A i \in DOMAIN readCalls' :
            IsValueResult(i)' =>
               \E k \in AcceptedWrites' : GotValue(i, writeLog[k].value)'
      ]_vars

C6_Witness ==
    /\ closed
    /\ Len(atClose.buffered) = 1
    /\ Len(writeLog) = 3
    /\ writeLog[2].ret.closed
    /\ Len(readCalls) = atClose.reads + 2
    /\ GotClosed(Len(readCalls), closeLog[1])

\* C7: an iterator that is the channel's only reader yields the accepted
\* writes in order; when it has terminated the channel is closed, it has
\* yielded all of them, and it threw e exactly if the first close carried e.
C7_IterationYieldsAll ==
    \A t \in Iterators :
        (\A i \in DOMAIN readCalls : readCalls[i].by = t) =>
            /\ Len(yielded[t]) <= NumAccepted
            /\ \A k \in 1..Len(yielded[t]) : yielded[t][k] = writeLog[k].value
            /\ pc[t] \in {"done", "threw"} =>
                  /\ closed
                  /\ Len(yielded[t]) = NumAccepted
                  /\ (pc[t] = "threw") <=> (closeLog[1] # Undefined)
                  /\ thrown[t] = closeLog[1]

C7_Witness ==
    /\ pc[1] = "threw"
    /\ thrown[1] = "e1"
    /\ Len(yielded[1]) = 3
    /\ atClose.reads = 0
    /\ Len(atClose.buffered) = 3
    /\ \A i \in DOMAIN readCalls : readCalls[i].by = 1

\* C8: no written value reaches a consumer twice, only accepted writes are
\* delivered, and once some read() has reported closure and every iterator
\* that started has terminated, every accepted write has been received
\* exactly once.
C8_NoLossNoDuplication ==
    /\ \A v \in Values : Receipts(v) <= 1
    /\ \A v \in Values :
          Receipts(v) = 1 => \E k \in AcceptedWrites : writeLog[k].value = v
    /\ ( /\ closed
         /\ \E i \in DOMAIN readCalls : IsClosedResult(i)
         /\ \A t \in Iterators : pc[t] \in {"idle", "done", "threw"} )
       => \A k \in AcceptedWrites : Receipts(writeLog[k].value) = 1

C8_Witness ==
    /\ closed
    /\ NumAccepted >= 2
    /\ pc[1] = "done"
    /\ Len(yielded[1]) >= 1
    /\ \E i \in DOMAIN readCalls : readCalls[i].by = 0 /\ IsValueResult(i)
    /\ \E i \in DOMAIN readCalls : readCalls[i].by = 0 /\ IsClosedResult(i)
    /\ atClose.reads >= 2

\* C9: when a read() call has resolved with a closed result, every accepted
\* write has been claimed by an earlier read() call and no later read() call
\* resolves with a value.
C9_ClosureIsTrailing ==
    \A j \in DOMAIN readCalls :
        IsClosedResult(j) =>
            /\ \A k \in AcceptedWrites :
                  \E i \in 1..(j - 1) : GotValue(i, writeLog[k].value)
            /\ \A i \in DOMAIN readCalls : i > j => ~IsValueResult(i)

C9_Witness ==
    /\ NumAccepted = 2
    /\ Len(atClose.buffered) = 1
    /\ \E j \in DOMAIN readCalls :
          /\ j < Len(readCalls)
          /\ IsClosedResult(j)
          /\ readCalls[j].awaits = Null

\* C10: under fair scheduling, whenever the channel is closed a state
\* follows in which no read() call is pending and every iterator that was
\* started has ended or thrown.
C10_TerminationAfterClose ==
    [](closed =>
         <>(/\ \A i \in DOMAIN readCalls : Result(i) # Pending
            /\ \A t \in Iterators : pc[t] \in {"idle", "done", "threw"}))

C10_Witness ==
    /\ closed
    /\ pc[1] = "threw"
    /\ Len(yielded[1]) >= 1
    /\ atClose.reads >= 2
    /\ Len(atClose.buffered) = 0
    /\ readCalls[atClose.reads].by = 1

\* ------------------------------------------------------------- more vocabulary
\* The step is a write(), a read() or a close() call.
WriteStep == Len(writeLog') = Len(writeLog) + 1
ReadStep == Len(readCalls') = Len(readCalls) + 1
CloseStep == Len(closeLog') = Len(closeLog) + 1

\* The entries of a queue, as a set.
Entries(q) == {iterate(q)[k] : k \in 1..Len(iterate(q))}

\* The read() calls that took a promise out of `promises`.
ClaimingReads == {i \in DOMAIN readCalls : readCalls[i].awaits # Null}

\* The promises nobody has settled.
Unsettled == {p \in DOMAIN slots : slots[p] = Pending}

\* C11: closed starts false and never goes back to false; error changes only
\* in the step that closes the channel and is undefined while the channel is
\* open; the state snapshot is {closed: false} (no error) before any close
\* and {closed: true, error: e} with the first close's e afterwards.
C11_StateMonotonic ==
    /\ (closed = FALSE /\ error = Undefined /\ state = [closed |-> FALSE, error |-> Undefined])
    /\ [][/\ closed => closed'
          /\ (error' # error) => (~closed /\ closed')
          /\ ~closed' => error' = Undefined
          /\ state' = IF closeLog' = <<>>
                      THEN [closed |-> FALSE, error |-> Undefined]
                      ELSE [closed |-> TRUE, error |-> closeLog'[1]]
       ]_vars

C11_Witness ==
    /\ Len(closeLog) = 2
    /\ closeLog[1] = "e1"
    /\ closeLog[2] = "e2"
    /\ state = [closed |-> TRUE, error |-> "e1"]

\* C12: on an open channel write(v) is enabled, returns {closed: false,
\* value: v} and settles exactly one promise with v: the one of the oldest
\* suspended read() call when there is one (and then nothing is buffered),
\* otherwise a new promise appended to `promises`.
C12_WriteSettlesOne ==
    /\ []((~closed /\ Calls < MaxCalls) => ENABLED write(Len(writeLog) + 1))
    /\ [][(~closed /\ WriteStep) =>
            LET v == writeLog'[Len(writeLog')].value
                ret == writeLog'[Len(writeLog')].ret
                waiting == {i \in DOMAIN readCalls : Suspended(i)}
                data == Fulfilled([closed |-> FALSE, value |-> v])
            IN /\ ~ret.closed
               /\ ret.value = v
               /\ IF waiting # {}
                  THEN LET i == CHOOSE i \in waiting : \A j \in waiting : i <= j
                       IN /\ slots' = [slots EXCEPT ![readCalls[i].awaits] = data]
                          /\ size(promises') = 0
                          /\ iterate(promises') = <<>>
                  ELSE /\ slots' = Append(slots, data)
                       /\ iterate(promises') = Append(iterate(promises), Len(slots'))
                       /\ size(promises') = size(promises) + 1
       ]_vars

C12_Witness ==
    /\ ~closed
    /\ Len(writeLog) = 3
    /\ Len(readCalls) = 1
    /\ GotValue(1, 1)
    /\ size(promises) = 2

\* C13 as stated: the two queues hold the same number of entries.
C13_SameCardinality == size(promises) = size(resolvers)

\* C13 amended: the queues are fed in lockstep, so their sizes differ exactly
\* by what was taken out: size of promises plus the promises claimed by
\* read() calls, and size of resolvers plus the resolvers called by write(),
\* both equal the number of promises created.
C13_FedInLockstep ==
    /\ size(promises) + Cardinality(ClaimingReads) = Len(slots)
    /\ size(resolvers) + NumAccepted = Len(slots)
    /\ size(promises) = Len(iterate(promises))
    /\ size(resolvers) = Len(iterate(resolvers))

C13_Witness ==
    /\ size(promises) = 2
    /\ size(resolvers) = 0
    /\ Cardinality(ClaimingReads) = 1
    /\ Len(slots) = 3

\* C14 as stated: the resolvers queue holds exactly the resolvers of the
\* unsettled promises that are in the promises queue.
C14_ResolversOfQueuedSlots ==
    Entries(resolvers) = {p \in Entries(promises) : slots[p] = Pending}

\* C14 amended: no promise in the promises queue is unsettled; while the
\* channel is open the resolvers queue holds exactly the resolvers of the
\* unsettled promises, all claimed by suspended read() calls, oldest first;
\* after close it holds only resolvers of promises that close settled.
C14_ResolversOfClaimedSlots ==
    LET rs == iterate(resolvers) IN
    /\ \A p \in Entries(promises) : slots[p] # Pending
    /\ \A k, l \in 1..Len(rs) : k < l => rs[k] < rs[l]
    /\ ~closed =>
          /\ Entries(resolvers) = Unsettled
          /\ Unsettled = {readCalls[i].awaits : i \in {j \in DOMAIN readCalls : Suspended(j)}}
    /\ closed =>
          \A p \in Entries(resolvers) :
             slots[p] # Pending /\ slots[p].value.closed

C14_Witness ==
    /\ ~closed
    /\ size(resolvers) = 2
    /\ size(promises) = 0
    /\ Len(slots) = 3

\* C15: a step creates at most one promise, and a new promise is then in the
\* promises queue unless the read() of this step claimed it, and its one
\* resolver is in the resolvers queue unless the write() of this step called
\* it; a promise leaves the promises queue only in a read() step that claims
\* it, a resolver leaves the resolvers queue only in a write() step that
\* calls it.
C15_SlotPairing ==
    [][LET new == (Len(slots) + 1)..Len(slots')
           claimed(p) == ReadStep /\ readCalls'[Len(readCalls')].awaits = p
           called(p) ==
               /\ WriteStep
               /\ ~writeLog'[Len(writeLog')].ret.closed
               /\ slots'[p] = Fulfilled([closed |-> FALSE,
                                         value |-> writeLog'[Len(writeLog')].value])
       IN /\ Len(slots') - Len(slots) \in {0, 1}
          /\ \A p \in new : (p \in Entries(promises') \/ claimed(p))
                            /\ (p \in Entries(resolvers') \/ called(p))
          /\ Cardinality(Entries(promises')) = Len(iterate(promises'))
          /\ Cardinality(Entries(resolvers')) = Len(iterate(resolvers'))
          /\ \A p \in Entries(promises) \ Entries(promises') : claimed(p)
          /\ \A p \in Entries(resolvers) \ Entries(resolvers') : called(p)
      ]_vars

C15_Witness ==
    /\ closed
    /\ atClose.reads >= NumAccepted + 1
    /\ NumAccepted >= 2
    /\ size(resolvers) >= 1
    /\ Len(readCalls) > atClose.reads

\* C16: once closed, closed, error, every promise and the resolvers queue
\* stay as they are; the promises queue changes only by a read() taking its
\* front entry, which every read() does while it is non-empty; a read() on a
\* closed channel with an empty promises queue returns the closed result at
\* once and touches neither queue.
C16_FrozenAfterClose ==
    [][closed =>
         /\ closed'
         /\ error' = error
         /\ slots' = slots
         /\ resolvers' = resolvers
         /\ IF ReadStep /\ size(promises) > 0
            THEN /\ size(promises') = size(promises) - 1
                 /\ iterate(promises') = Tail(iterate(promises))
                 /\ readCalls'[Len(readCalls')].awaits = Head(iterate(promises))
            ELSE promises' = promises
         /\ (ReadStep /\ size(promises) = 0) =>
               LET c == readCalls'[Len(readCalls')] IN
               /\ c.awaits = Null
               /\ c.returned # Pending
               /\ c.returned.value.closed
               /\ ErrorOf(c.returned.value) = error
      ]_vars

C16_Witness ==
    /\ closed
    /\ Len(atClose.buffered) = 2
    /\ size(promises) = 0
    /\ Len(readCalls) = atClose.reads + 3
    /\ size(resolvers) = 0

\* C17: the first close settles the promise of every resolver in the
\* resolvers queue with the closed result, settles no other promise, and
\* leaves both queues as they are; a close on a closed channel changes
\* nothing.
C17_CloseBroadcastsInPlace ==
    [][CloseStep =>
         /\ promises' = promises
         /\ resolvers' = resolvers
         /\ IF closed
            THEN UNCHANGED <<closed, error, slots, readCalls, writeLog,
                             pc, cur, yielded, thrown>>
            ELSE LET err == closeLog'[Len(closeLog')] IN
                 /\ \A p \in Entries(resolvers) :
                       /\ slots[p] = Pending
                       /\ slots'[p] # Pending
                       /\ slots'[p].value.closed
                       /\ ErrorOf(slots'[p].value) = err
                 /\ \A p \in DOMAIN slots \ Entries(resolvers) : slots'[p] = slots[p]
                 /\ Len(slots') = Len(slots)
      ]_vars

C17_Witness ==
    /\ Len(closeLog) = 2
    /\ size(resolvers) = 2
    /\ \A p \in Entries(resolvers) : slots[p] # Pending

\* ------------------------------------------------------------- the queue on its own
\* Mutant: dequeue forgets `size--`.
qDequeue_noSize ==
    /\ Len(qlog) < MaxCalls
    /\ LET d == dequeue(queue) IN
       /\ queue' = [d.queue EXCEPT !.size = queue.size]
       /\ qlog' = Append(qlog, [op |-> "dequeue", value |-> d.value])
       /\ gens' = [g \in Iterators |->
                     [keepAlive(queue, gens[g]) EXCEPT !.touched = TRUE]]
    /\ UNCHANGED chanVars

\* Mutant: dequeue forgets `if (front === null) rear = null`.
qDequeue_staleRear ==
    /\ Len(qlog) < MaxCalls
    /\ LET d == dequeue(queue) IN
       /\ queue' = [d.queue EXCEPT !.rear = queue.rear]
       /\ qlog' = Append(qlog, [op |-> "dequeue", value |-> d.value])
       /\ gens' = [g \in Iterators |->
                     [keepAlive(queue, gens[g]) EXCEPT !.touched = TRUE]]
    /\ UNCHANGED chanVars

\* queue.enqueue(v); the k-th call enqueues k
qEnqueue ==
    /\ Len(qlog) < MaxCalls
    /\ LET v == Cardinality({i \in DOMAIN qlog : qlog[i].op = "enqueue"}) + 1 IN
       /\ queue' = enqueue(queue, v)
       /\ qlog' = Append(qlog, [op |-> "enqueue", value |-> v])
    /\ gens' = [g \in Iterators |-> [gens[g] EXCEPT !.touched = TRUE]]
    /\ UNCHANGED chanVars

\* queue.dequeue()
qDequeue ==
    /\ Len(qlog) < MaxCalls
    /\ LET d == dequeue(queue) IN
       /\ queue' = d.queue
       /\ qlog' = Append(qlog, [op |-> "dequeue", value |-> d.value])
       /\ gens' = [g \in Iterators |->
                     [keepAlive(queue, gens[g]) EXCEPT !.touched = TRUE]]
    /\ UNCHANGED chanVars

\* queue[Symbol.iterator]()
qIterator(g) ==
    /\ gens[g].st = "none"
    /\ gens' = [gens EXCEPT ![g] = newGenerator(queue)]
    /\ UNCHANGED <<queue, qlog>>
    /\ UNCHANGED chanVars

\* next() on a generator that has not returned
qNext(g) ==
    /\ gens[g].st \in {"new", "suspended"}
    /\ gens' = [gens EXCEPT ![g] = genNext(queue, gens[g])]
    /\ UNCHANGED <<queue, qlog>>
    /\ UNCHANGED chanVars

QNext ==
    \/ qEnqueue
    \/ qDequeue
    \/ \E g \in Iterators : qIterator(g)
    \/ \E g \in Iterators : qNext(g)

QSpec == Init /\ [][QNext]_vars

\* The values enqueued, and the values dequeue returned, in call order, up
\* to call n of the log.
RECURSIVE Enqueued(_)
Enqueued(n) ==
    IF n = 0 THEN <<>>
    ELSE IF qlog[n].op = "enqueue" THEN Append(Enqueued(n - 1), qlog[n].value)
    ELSE Enqueued(n - 1)

RECURSIVE Dequeued(_)
Dequeued(n) ==
    IF n = 0 THEN <<>>
    ELSE IF qlog[n].op = "dequeue" /\ qlog[n].value # Null
    THEN Append(Dequeued(n - 1), qlog[n].value)
    ELSE Dequeued(n - 1)

\* C18: every dequeue() returned the earliest enqueued element not yet
\* removed, or null exactly when there was none; size is the number of
\* enqueues minus the number of non-null dequeues (0 after a null dequeue).
C18_QueueFifo ==
    /\ size(queue) = Len(Enqueued(Len(qlog))) - Len(Dequeued(Len(qlog)))
    /\ \A n \in DOMAIN qlog :
          qlog[n].op = "dequeue" =>
             LET e == Enqueued(n - 1)
                 d == Dequeued(n - 1)
             IN IF Len(e) = Len(d)
                THEN qlog[n].value = Null
                ELSE qlog[n].value = e[Len(d) + 1]
    /\ (qlog # <<>> /\ qlog[Len(qlog)] = [op |-> "dequeue", value |-> Null])
          => size(queue) = 0

C18_Witness ==
    /\ Len(qlog) = 6
    /\ qlog[1].op = "dequeue"
    /\ qlog[6] = [op |-> "dequeue", value |-> 2]
    /\ qlog[4] = [op |-> "enqueue", value |-> 3]
    /\ size(queue) = 1

\* C19: after every enqueue and dequeue, size is the number of nodes
\* reachable from front, rear is null exactly when size is 0, front is null
\* exactly when rear is null, and rear, when not null, is the last node.
C19_QueueStructure ==
    /\ size(queue) = Len(walk(queue, queue.front))
    /\ (queue.rear = Null) <=> (size(queue) = 0)
    /\ (queue.front = Null) <=> (queue.rear = Null)
    /\ queue.rear # Null =>
          /\ queue.rear \in DOMAIN queue.nodes
          /\ queue.nodes[queue.rear].next = Null
          /\ queue.nodes[queue.rear].value = iterate(queue)[size(queue)]

C19_Witness ==
    /\ Len(qlog) = 6
    /\ size(queue) = 0
    /\ Len(Dequeued(6)) = 2
    /\ qlog[3].op = "dequeue"
    /\ qlog[6].op = "dequeue"

\* C20 as stated: a generator that has returned yielded exactly the elements
\* that were in the queue when it was requested.
C20_Snapshot ==
    \A g \in Iterators : gens[g].st = "done" => gens[g].out = gens[g].atRequest

\* C20 amended: requesting and advancing a generator leaves the queue as it
\* is; a generator yields in FIFO order (enqueue order); and when no enqueue
\* or dequeue was called between requesting it and its return, it yielded
\* exactly the elements that were in the queue when it was requested.
C20_LiveTraversal ==
    [][/\ (gens' # gens /\ qlog' = qlog) => queue' = queue
       /\ \A g \in Iterators :
             LET o == gens[g].out' IN
             /\ \A k, l \in 1..Len(o) : k < l => o[k] < o[l]
             /\ \A k \in 1..Len(o) : o[k] \in 1..Len(Enqueued(Len(qlog)))'
             /\ (gens[g].st' = "done" /\ ~gens[g].touched')
                   => o = gens[g].atRequest'
      ]_vars

C20_Witness ==
    /\ gens[1].st = "done"
    /\ ~gens[1].touched
    /\ Len(gens[1].out) = 3
    /\ size(queue) = 3
    /\ Len(Dequeued(Len(qlog))) = 1

\* ------------------------------------------------------------- the channel's queues
\* C21: at most one of the two queues is non-empty, and while the channel is
\* open promises.size = max(0, #writes - #reads) and
\* resolvers.size = max(0, #reads - #writes), counting every write() and
\* read() call made so far.
C21_OneSidedBacklog ==
    /\ size(promises) = 0 \/ size(resolvers) = 0
    /\ ~closed =>
          IF Len(writeLog) >= Len(readCalls)
          THEN /\ size(promises) = Len(writeLog) - Len(readCalls)
               /\ size(resolvers) = 0
          ELSE /\ size(promises) = 0
               /\ size(resolvers) = Len(readCalls) - Len(writeLog)

C21_Witness ==
    /\ ~closed
    /\ Len(writeLog) = 2
    /\ Len(readCalls) = 4
    /\ size(resolvers) = 2
    /\ GotValue(1, 1)
    /\ readCalls[1].awaits = 1
    /\ readCalls[1].by = 0

\* Every promise in the promises queue is settled with a value result.
BufferedAreValues ==
    \A p \in Entries(promises) :
        slots[p] # Pending /\ ~slots[p].value.closed

\* C22: between operations every promise in the promises queue is settled
\* with {closed: false, value}; a read() call that returns a pending promise
\* returns the one it created itself; a closed result reaches a read() call
\* either from the closed / error fields (the call found the channel closed
\* and nothing buffered) or through a promise that read() call had taken
\* before the channel was closed.
C22_BufferedSlotsHoldValues ==
    /\ BufferedAreValues
    /\ [][/\ BufferedAreValues'
          /\ ReadStep =>
                LET i == Len(readCalls') IN
                (readCalls'[i].awaits # Null
                    /\ slots'[readCalls'[i].awaits] = Pending) =>
                   /\ Len(slots') = Len(slots) + 1
                   /\ readCalls'[i].awaits = Len(slots')
                   /\ size(promises) = 0
          /\ \A i \in DOMAIN readCalls' :
                IsClosedResult(i)' =>
                   /\ closed'
                   /\ IF readCalls'[i].awaits = Null
                      THEN readCalls'[i].returned = Fulfilled(closedResult(error'))
                      ELSE /\ i <= atClose'.reads
                           /\ readCalls'[i].awaits \notin Entries(promises')
         ]_vars

C22_Witness ==
    /\ closed
    /\ \E i, j, k \in DOMAIN readCalls :
          /\ GotClosed(i, "e1") /\ readCalls[i].awaits # Null
          /\ GotClosed(j, "e1") /\ readCalls[j].awaits = Null
          /\ GotValue(k, 1) /\ k < i

\* The promises whose resolve function has been called.
Invoked == {invoked[k] : k \in DOMAIN invoked}

\* C23: no resolve function is called twice: the one write() calls is no
\* longer in the resolvers queue afterwards, so the first close() finds only
\* resolvers that were never called; those it calls stay in the queue, and
\* once the channel is closed no call of write(), read() or close() calls a
\* resolver.  A settled promise keeps its result, and the settled promises
\* are exactly those whose resolver was called.
C23_ResolversInvokedOnce ==
    [][/\ \A k, l \in DOMAIN invoked' : k < l => invoked'[k] # invoked'[l]
       /\ WriteStep =>
             \A k \in (Len(invoked) + 1)..Len(invoked') :
                 invoked'[k] \notin Entries(resolvers')
       /\ (CloseStep /\ ~closed) =>
             /\ Entries(resolvers) \cap Invoked = {}
             /\ Invoked' = Invoked \cup Entries(resolvers)
             /\ Entries(resolvers') = Entries(resolvers)
       /\ closed => invoked' = invoked
       /\ \A p \in DOMAIN slots : slots[p] # Pending => slots'[p] = slots[p]
       /\ {p \in DOMAIN slots' : slots'[p] # Pending} = Invoked'
      ]_vars

C23_Witness ==
    /\ Len(closeLog) = 2
    /\ Len(writeLog) = 2
    /\ writeLog[2].ret.closed
    /\ size(resolvers) = 1
    /\ invoked = <<1, 2>>
    /\ GotValue(1, 1)
    /\ GotClosed(2, closeLog[1])

====
